---------------------------- MODULE Spec2Model ----------------------------
(***************************************************************************)
(* A model of the profile-statistics scripts src/old.py and                *)
(* src/update_readme.py: the README section splice, format_lines_k,        *)
(* count_lines_in_dir, aggregate_language_bytes, commit_and_push and the   *)
(* top-level run of old.py.                                                *)
(*                                                                         *)
(* Text is a sequence of symbols.  The two markers are single symbols:     *)
(* neither marker string overlaps itself or the other one, so Python's     *)
(* `in` and str.split on them behave on the text exactly as membership and *)
(* splitting behave on the symbol sequence.                                *)
(***************************************************************************)
EXTENDS Integers, Sequences, FiniteSets, TLC

VARIABLES
    \* ---- README section splice ----
    readme_exists,   \* readme_file.exists()
    readme,          \* text of README.md (<<>> while the file does not exist)
    orig,            \* text of README.md before the first run
    content,         \* the text the latest run read (readme_file.read_text())
    body,            \* the text the latest run put between the markers
    prevBody,        \* the text the run before the latest put between them
    runs,            \* number of runs of update_readme_with_image so far
    \* ---- format_lines_k ----
    lines,           \* the argument
    s,               \* the returned string, as a sequence of characters
    fmt_pc,
    \* ---- count_lines_in_dir ----
    tree,            \* what path.rglob("*") yields, in order
    pos,             \* number of paths the loop has visited
    total,
    files_counted,
    cnt_pc,
    \* ---- aggregate_language_bytes ----
    repos,           \* the list of repository descriptors
    responses,       \* what each languages_url answered (by index), so far
    ri,              \* number of descriptors the loop has visited
    totals,
    agg_pc,
    \* ---- the run of old.py and commit_and_push ----
    pc,
    page,            \* the page fetch_repos requests next
    worktree,        \* [readme, images]: the files of the working directory
    index,           \* the staged tree
    head,            \* the tree of the HEAD commit
    commits,         \* messages of the commits created, oldest first
    pushed,          \* number of commits the remote has
    start0,          \* [worktree, head] when the run started
    call,            \* what this call of commit_and_push did so far
    calls,           \* how many times each step was attempted
    cause            \* the step whose error aborted the run

replVars == <<readme_exists, readme, orig, content, body, prevBody, runs>>
fmtVars  == <<lines, s, fmt_pc>>
cntVars  == <<tree, pos, total, files_counted, cnt_pc>>
aggVars  == <<repos, responses, ri, totals, agg_pc>>
runVars  == <<pc, page, worktree, index, head, commits, pushed, start0, call, calls, cause>>
vars     == <<replVars, fmtVars, cntVars, aggVars, runVars>>

\* What a step of one routine leaves alone: the state of the other routines
OnlyRepl == UNCHANGED <<fmtVars, cntVars, aggVars, runVars>>
OnlyFmt  == UNCHANGED <<replVars, cntVars, aggVars, runVars>>
OnlyCnt  == UNCHANGED <<replVars, fmtVars, aggVars, runVars>>
OnlyAgg  == UNCHANGED <<replVars, fmtVars, cntVars, runVars>>
OnlyRun  == UNCHANGED <<replVars, fmtVars, cntVars, aggVars>>

----------------------------------------------------------------------------
(* Bounds of the model.                                                    *)
MaxDocLen  == 4
MaxBodyLen == 1
MaxRuns    == 2

----------------------------------------------------------------------------
(* Sequence helpers.                                                       *)

SeqsUpTo(S, n) == UNION {[1..k -> S] : k \in 0..n}

\* x in s
Contains(seq, x) == \E i \in 1..Len(seq) : seq[i] = x

\* s.count(x)
Count(seq, x) == Cardinality({i \in 1..Len(seq) : seq[i] = x})

\* s.find(x) + 1, for x in s
IndexOf(seq, x) == CHOOSE i \in 1..Len(seq) :
                      seq[i] = x /\ \A j \in 1..(i - 1) : seq[j] # x

\* s.endswith(x)
EndsWith(seq, x) == Len(seq) > 0 /\ seq[Len(seq)] = x

\* s.split(x)[0]: the text before the first x, all of s when x is not in s
Split0(seq, x) ==
    IF Contains(seq, x) THEN SubSeq(seq, 1, IndexOf(seq, x) - 1) ELSE seq

\* s.split(x)[1], for x in s: the text between the first x and the second x,
\* or up to the end of s when there is no second x
Split1(seq, x) ==
    LET rest == SubSeq(seq, IndexOf(seq, x) + 1, Len(seq))
    IN  Split0(rest, x)

----------------------------------------------------------------------------
(* README section splice: update_readme_with_image (src/update_readme.py)  *)
(* and the same code in the main block of src/old.py.                      *)

start_marker == "<!-- STATS:START -->"
end_marker   == "<!-- STATS:END -->"
NL           == "nl"
Markers      == {start_marker, end_marker}
TextChars    == {"a", NL}
DocChars     == TextChars \cup Markers

Docs   == SeqsUpTo(DocChars, MaxDocLen)
Bodies == SeqsUpTo(TextChars, MaxBodyLen)

\* readme_file.write_text(f"# {USERNAME}\n\n") for a missing README
DefaultReadme == <<"a", NL, NL>>

\* new_section: the start marker, the generated text, the end marker
new_section(b) == <<start_marker>> \o b \o <<end_marker>>

SpliceAlwaysAppend(c, section) ==
    (IF ~EndsWith(c, NL) THEN c \o <<NL>> ELSE c) \o <<NL>> \o section \o <<NL>>

SpliceNoNewlineFix(c, section) ==
    IF Contains(c, start_marker) /\ Contains(c, end_marker)
    THEN Split0(c, start_marker) \o section \o Split1(c, end_marker)
    ELSE c \o <<NL>> \o section \o <<NL>>

\* the if/else that builds new_content from content and new_section
Splice(c, section) ==
    IF Contains(c, start_marker) /\ Contains(c, end_marker)
    THEN LET pre  == Split0(c, start_marker)
             post == Split1(c, end_marker)
         IN  pre \o section \o post
    ELSE LET c2 == IF ~EndsWith(c, NL) THEN c \o <<NL>> ELSE c
         IN  c2 \o <<NL>> \o section \o <<NL>>

IdleRepl ==
    /\ readme_exists = FALSE /\ readme = <<>> /\ orig = <<>> /\ content = <<>>
    /\ body = <<>> /\ prevBody = <<>> /\ runs = 0

InitRepl ==
    /\ readme_exists \in BOOLEAN
    /\ readme \in (IF readme_exists THEN Docs ELSE {<<>>})
    /\ orig = readme
    /\ content = <<>>
    /\ body = <<>>
    /\ prevBody = <<>>
    /\ runs = 0

\* One run of update_readme_with_image; b is the text generated for this run.
update_readme_with_image(b) ==
    /\ runs < MaxRuns
    /\ LET c == IF readme_exists THEN readme ELSE DefaultReadme
       IN  /\ content' = c
           /\ readme' = Splice(c, new_section(b))
    /\ readme_exists' = TRUE
    /\ prevBody' = body
    /\ body' = b
    /\ runs' = runs + 1
    /\ UNCHANGED orig
    /\ OnlyRepl

----------------------------------------------------------------------------
(* format_lines_k (src/old.py).                                            *)

MaxLines == 16400

Digit(d) == CASE d = 0 -> "0" [] d = 1 -> "1" [] d = 2 -> "2" [] d = 3 -> "3"
              [] d = 4 -> "4" [] d = 5 -> "5" [] d = 6 -> "6" [] d = 7 -> "7"
              [] d = 8 -> "8" [] d = 9 -> "9"

RECURSIVE Str(_)
\* str(n) for an int n >= 0
Str(n) == IF n < 10 THEN <<Digit(n)>> ELSE Str(n \div 10) \o <<Digit(n % 10)>>

\* 2^e mod 20
Pow2Mod20(e) == CASE e = 0 -> 1 [] e = 1 -> 2
                  [] e >= 2 /\ e % 4 = 2 -> 4  [] e >= 2 /\ e % 4 = 3 -> 8
                  [] e >= 2 /\ e % 4 = 0 -> 16 [] e >= 2 /\ e % 4 = 1 -> 12

RECURSIVE Log2Floor(_, _)
\* the largest j with d * 2^j <= n, for n >= d
Log2Floor(n, d) == IF 2 * d <= n THEN 1 + Log2Floor(n, 2 * d) ELSE 0

\* val = lines / 1000.0 is the IEEE double nearest to n/1000.  +1, 0 or -1 as
\* that double is above, equal to or below n/1000, for n = 100m + 50: n/1000 is
\* (2m+1)/20, the double is M * 2^-e with M the integer nearest to
\* (2m+1) * 2^e / 20 and e = 52 - floor(log2(n/1000)).
DoubleSide(n) ==
    LET odd == 2 * (n \div 100) + 1
        e   == 52 - Log2Floor(n, 1000)
        r   == ((odd % 20) * Pow2Mod20(e)) % 20
    IN  IF r = 0 THEN 0 ELSE IF r < 10 THEN -1 ELSE 1

\* f"{val:.1f}" in tenths: the exact value of the double val, correctly
\* rounded to one decimal, ties to even
Tenths(n) ==
    LET t == n \div 100
        d == n % 100
    IN  IF d < 50 THEN t
        ELSE IF d > 50 THEN t + 1
        ELSE IF DoubleSide(n) = 0 THEN (IF t % 2 = 0 THEN t ELSE t + 1)
        ELSE IF DoubleSide(n) < 0 THEN t ELSE t + 1

\* s.replace(".", ",")
ReplaceDot(seq) == [i \in 1..Len(seq) |-> IF seq[i] = "." THEN "," ELSE seq[i]]

format_lines_k(n) ==
    IF n < 1000 THEN Str(n)
    ELSE LET t  == Tenths(n)
             s1 == Str(t \div 10) \o <<".", Digit(t % 10)>>
             s2 == IF Len(s1) >= 2 /\ SubSeq(s1, Len(s1) - 1, Len(s1)) = <<".", "0">>
                   THEN SubSeq(s1, 1, Len(s1) - 2) \o <<"k">>
                   ELSE s1 \o <<"k">>
         IN  ReplaceDot(s2)

IdleFmt == lines = 0 /\ s = <<>> /\ fmt_pc = "idle"

InitFmt == lines \in 0..MaxLines /\ s = <<>> /\ fmt_pc = "call"

Format ==
    /\ fmt_pc = "call"
    /\ s' = format_lines_k(lines)
    /\ fmt_pc' = "returned"
    /\ UNCHANGED lines
    /\ OnlyFmt

----------------------------------------------------------------------------
(* count_lines_in_dir (src/old.py).                                        *)

MaxFiles   == 2
MaxFileLen == 2

CODE_EXTS == {".py", ".js", ".ts", ".java", ".c", ".cpp", ".h", ".hpp", ".go",
              ".rb", ".rs", ".swift", ".kt", ".kts", ".scala", ".php", ".html",
              ".css", ".scss", ".md", ".json", ".yaml", ".yml", ".sh", ".ps1",
              ".lua", ".pl", ".r"}

\* str.lower() on the suffixes of the model: ".py", ".PY" and ".txt"
Lower(x) == IF x = ".PY" THEN ".py" ELSE x

\* Bytes of a file: 0x0A, 0x61 and 0xFF (which no UTF-8 text contains)
Bytes == {"0A", "61", "FF"}
FileContents == SeqsUpTo(Bytes, MaxFileLen)

\* A path of the tree: a regular file or not, its suffix, and what
\* p.read_bytes() does when the loop calls it: raise (readable = FALSE) or
\* return bytes.  The loop reads only regular files with a recognized suffix;
\* OtherBytes is what the other files hold.
OtherBytes == <<"61", "0A", "61">>
Paths ==
    [is_file : {TRUE}, suffix : {".py", ".PY"}, readable : {TRUE}, bytes : FileContents]
    \cup [is_file : {TRUE}, suffix : {".py", ".PY"}, readable : {FALSE}, bytes : {OtherBytes}]
    \cup [is_file : {TRUE}, suffix : {".txt"}, readable : {TRUE}, bytes : {OtherBytes}]
    \cup [is_file : {FALSE}, suffix : {".py"}, readable : {FALSE}, bytes : {<<>>}]

\* b.decode("utf-8") raises UnicodeDecodeError
Utf8Fails(b) == Contains(b, "FF")

\* one decoded character per byte, in both encodings
DecodeByte(x) == CASE x = "0A" -> NL [] x = "61" -> "a" [] x = "FF" -> "y-diaeresis"

\* b.decode("latin-1"): every byte is a character, it never raises
Latin1(b) == [i \in 1..Len(b) |-> DecodeByte(b[i])]

\* b.decode("utf-8") when it does not raise
Utf8(b) == [i \in 1..Len(b) |-> DecodeByte(b[i])]

LinesOfAlwaysPlusOne(text) == Count(text, NL) + 1

\* lines = content.count("\n"), plus 1 for a last line without newline
LinesOf(text) ==
    LET n == Count(text, NL)
    IN  IF text # <<>> /\ ~EndsWith(text, NL) THEN n + 1 ELSE n

CountsCaseSensitive(p) == p.is_file /\ p.suffix \in CODE_EXTS

\* p.is_file() and p.suffix.lower() in CODE_EXTS
Counts(p) == p.is_file /\ Lower(p.suffix) \in CODE_EXTS

ReadNeverSkips(p) == FALSE

\* the read of p raises and the except clause goes on with the next path
ReadSkipped(p) == ~p.readable

IdleCnt ==
    /\ tree = <<>> /\ pos = 0 /\ total = 0 /\ files_counted = 0 /\ cnt_pc = "idle"

InitCnt ==
    /\ tree \in SeqsUpTo(Paths, MaxFiles)
    /\ pos = 0
    /\ total = 0
    /\ files_counted = 0
    /\ cnt_pc = "loop"

\* One iteration of the for loop over path.rglob("*")
Visit ==
    /\ cnt_pc = "loop"
    /\ pos < Len(tree)
    /\ pos' = pos + 1
    /\ LET p == tree[pos + 1]
       IN  IF Counts(p) /\ ~ReadSkipped(p)
           THEN LET b    == p.bytes
                    text == IF Utf8Fails(b) THEN Latin1(b) ELSE Utf8(b)
                IN  /\ total' = total + LinesOf(text)
                    /\ files_counted' = files_counted + 1
           ELSE UNCHANGED <<total, files_counted>>
    /\ UNCHANGED <<tree, cnt_pc>>
    /\ OnlyCnt

\* return total, files_counted
CountReturn ==
    /\ cnt_pc = "loop"
    /\ pos = Len(tree)
    /\ cnt_pc' = "returned"
    /\ UNCHANGED <<tree, pos, total, files_counted>>
    /\ OnlyCnt

----------------------------------------------------------------------------
(* aggregate_language_bytes (src/old.py).                                  *)

MaxRepos == 2
MaxBytes == 2

Langs == {"Python", "C"}

\* r.get("fork") and r.get("languages_url"): present or missing
Descriptors == [fork : {"true", "false", "missing"}, languages_url : {"url", "missing"}]

\* lr.json(): a mapping from some languages to byte counts
LangMaps == UNION {[D -> 1..MaxBytes] : D \in SUBSET Langs}
EmptyMap == [l \in {} |-> 0]

\* What the GET of a languages_url does: raise (ok = FALSE) or answer a mapping
Answers == [ok : {TRUE}, langs : LangMaps] \cup [ok : {FALSE}, langs : {EmptyMap}]
NotFetched == [ok |-> FALSE, langs |-> EmptyMap]

\* d.get(l, 0)
Get(d, l) == IF l \in DOMAIN d THEN d[l] ELSE 0

\* totals after: for lang, b in langs.items(): totals[lang] = totals.get(lang, 0) + b
AddAll(d, langs) ==
    [l \in DOMAIN d \cup DOMAIN langs |-> Get(d, l) + Get(langs, l)]

ForkCounted(r) == FALSE

\* if r.get("fork"): continue
IsFork(r) == r.fork = "true"

\* if not langs_url: continue
NoUrl(r) == r.languages_url = "missing"

IdleAgg ==
    /\ repos = <<>> /\ responses = <<>> /\ ri = 0 /\ totals = EmptyMap
    /\ agg_pc = "idle"

InitAgg ==
    /\ repos \in SeqsUpTo(Descriptors, MaxRepos)
    /\ responses = <<>>
    /\ ri = 0
    /\ totals = EmptyMap
    /\ agg_pc = "loop"

\* One iteration of the for loop over a repository that is skipped unfetched
AggSkip ==
    /\ agg_pc = "loop"
    /\ ri < Len(repos)
    /\ IsFork(repos[ri + 1]) \/ NoUrl(repos[ri + 1])
    /\ ri' = ri + 1
    /\ responses' = Append(responses, NotFetched)
    /\ UNCHANGED <<repos, totals, agg_pc>>
    /\ OnlyAgg

\* One iteration of the for loop with a GET of the languages_url, answered by a
AggFetch(a) ==
    /\ agg_pc = "loop"
    /\ ri < Len(repos)
    /\ ~(IsFork(repos[ri + 1]) \/ NoUrl(repos[ri + 1]))
    /\ ri' = ri + 1
    /\ responses' = Append(responses, a)
    /\ totals' = IF a.ok THEN AddAll(totals, a.langs) ELSE totals
    /\ UNCHANGED <<repos, agg_pc>>
    /\ OnlyAgg

\* return totals
AggReturn ==
    /\ agg_pc = "loop"
    /\ ri = Len(repos)
    /\ agg_pc' = "returned"
    /\ UNCHANGED <<repos, responses, ri, totals>>
    /\ OnlyAgg

----------------------------------------------------------------------------
(* The run of old.py (its main block) and commit_and_push.                 *)

MaxPages == 2

COMMIT_MESSAGE == "chore: update profile stats (matplotlib + line counts)"

\* The image files of assets/stats: absent, or rendered from one of two data sets
Images == {"absent", "render1", "render2"}

\* The files of the working directory that the run writes are a record
\* [readme_exists, readme, images].

StartReadmes == {<<"a", NL>>, Splice(DefaultReadme, new_section(<<>>))}

StartTrees ==
    [readme_exists : {TRUE}, readme : StartReadmes, images : Images]
    \cup [readme_exists : {FALSE}, readme : {<<>>}, images : {"absent"}]

NoCall == [staged |-> FALSE, checked |-> FALSE, dirty |-> FALSE,
           committed |-> FALSE, pushed |-> FALSE, returned |-> "none"]

Step(name, n) == [step |-> name, n |-> n]

IdleRun ==
    /\ pc = "idle" /\ page = 0
    /\ worktree = [readme_exists |-> FALSE, readme |-> <<>>, images |-> "absent"]
    /\ index = worktree /\ head = worktree
    /\ commits = <<>> /\ pushed = 0
    /\ start0 = [worktree |-> worktree, head |-> head]
    /\ call = NoCall /\ calls = <<>> /\ cause = "none"

\* The repository when the script starts: the working directory either matches
\* the HEAD commit or holds changes that were never committed.
InitRun ==
    /\ pc = "fetch_user_info"
    /\ page = 1
    /\ worktree \in StartTrees
    /\ head \in StartTrees
    /\ index = head
    /\ commits = <<>>
    /\ pushed = 0
    /\ start0 = [worktree |-> worktree, head |-> head]
    /\ call = NoCall
    /\ calls = <<>>
    /\ cause = "none"

Abort(why) == pc' = "aborted" /\ cause' = why

\* user = fetch_user_info(USERNAME)
FetchUser ==
    /\ pc = "fetch_user_info"
    /\ calls' = Append(calls, Step("profile", 0))
    /\ pc' = "fetch_repos"
    /\ UNCHANGED <<page, worktree, index, head, commits, pushed, start0, call, cause>>
    /\ OnlyRun

\* r.raise_for_status() (or the GET) raises in fetch_user_info
FetchUserFails ==
    /\ pc = "fetch_user_info"
    /\ calls' = Append(calls, Step("profile", 0))
    /\ Abort("profile")
    /\ UNCHANGED <<page, worktree, index, head, commits, pushed, start0, call>>
    /\ OnlyRun

\* fetch_repos: one page that holds repositories
FetchReposPage ==
    /\ pc = "fetch_repos"
    /\ page < MaxPages
    /\ calls' = Append(calls, Step("page", page))
    /\ page' = page + 1
    /\ UNCHANGED <<pc, worktree, index, head, commits, pushed, start0, call, cause>>
    /\ OnlyRun

\* fetch_repos: the page that holds none ends the loop; the language and line
\* statistics that follow write nothing under the working directory
FetchReposLast ==
    /\ pc = "fetch_repos"
    /\ calls' = Append(calls, Step("page", page))
    /\ pc' = "render"
    /\ UNCHANGED <<page, worktree, index, head, commits, pushed, start0, call, cause>>
    /\ OnlyRun

FetchReposRetries ==
    /\ pc = "fetch_repos"
    /\ Len(calls) < MaxPages + 3
    /\ calls' = Append(calls, Step("page", page))
    /\ UNCHANGED <<pc, page, worktree, index, head, commits, pushed, start0, call, cause>>
    /\ OnlyRun

\* fetch_repos: a page's GET or raise_for_status raises
FetchReposFails ==
    /\ pc = "fetch_repos"
    /\ calls' = Append(calls, Step("page", page))
    /\ Abort("repos")
    /\ UNCHANGED <<page, worktree, index, head, commits, pushed, start0, call>>
    /\ OnlyRun

\* make_bar_chart_top_languages and make_summary_card write the image files
Render ==
    /\ pc = "render"
    /\ \E img \in Images \ {"absent"} :
          worktree' = [worktree EXCEPT !.images = img]
    /\ calls' = Append(calls, Step("render", 0))
    /\ pc' = "readme"
    /\ UNCHANGED <<page, index, head, commits, pushed, start0, call, cause>>
    /\ OnlyRun

\* The README update of the main block; b is the generated text
UpdateReadme ==
    /\ pc = "readme"
    /\ \E b \in Bodies :
          LET c == IF worktree.readme_exists THEN worktree.readme ELSE DefaultReadme
          IN  worktree' = [worktree EXCEPT !.readme_exists = TRUE,
                                           !.readme = Splice(c, new_section(b))]
    /\ calls' = Append(calls, Step("readme", 0))
    /\ pc' = "add"
    /\ UNCHANGED <<page, index, head, commits, pushed, start0, call, cause>>
    /\ OnlyRun

\* commit_and_push: repo.git.add(all=True)
GitAdd ==
    /\ pc = "add"
    /\ index' = worktree
    /\ call' = [call EXCEPT !.staged = TRUE]
    /\ calls' = Append(calls, Step("add", 0))
    /\ pc' = "is_dirty"
    /\ UNCHANGED <<page, worktree, head, commits, pushed, start0, cause>>
    /\ OnlyRun

\* commit_and_push: repo.git.add raises GitCommandError
GitAddFails ==
    /\ pc = "add"
    /\ calls' = Append(calls, Step("add", 0))
    /\ Abort("add")
    /\ UNCHANGED <<page, worktree, index, head, commits, pushed, start0, call>>
    /\ OnlyRun

DirtyAlways(i, h) == TRUE

\* repo.is_dirty(untracked_files=True) once everything is staged
is_dirty(i, h) == i # h

\* commit_and_push: if repo.is_dirty(...), else return False
CheckDirty ==
    /\ pc = "is_dirty"
    /\ LET d == is_dirty(index, head)
       IN  /\ call' = [call EXCEPT !.checked = TRUE, !.dirty = d,
                                   !.returned = IF d THEN "none" ELSE "False"]
           /\ pc' = IF d THEN "commit" ELSE "done"
    /\ UNCHANGED <<page, worktree, index, head, commits, pushed, start0, calls, cause>>
    /\ OnlyRun

\* commit_and_push: repo.index.commit(message)
GitCommit ==
    /\ pc = "commit"
    /\ commits' = Append(commits, COMMIT_MESSAGE)
    /\ head' = index
    /\ call' = [call EXCEPT !.committed = TRUE]
    /\ calls' = Append(calls, Step("commit", 0))
    /\ pc' = "push"
    /\ UNCHANGED <<page, worktree, index, pushed, start0, cause>>
    /\ OnlyRun

\* commit_and_push: repo.index.commit raises
GitCommitFails ==
    /\ pc = "commit"
    /\ calls' = Append(calls, Step("commit", 0))
    /\ Abort("commit")
    /\ UNCHANGED <<page, worktree, index, head, commits, pushed, start0, call>>
    /\ OnlyRun

\* commit_and_push: origin.push() and return True
GitPush ==
    /\ pc = "push"
    /\ pushed' = Len(commits)
    /\ call' = [call EXCEPT !.pushed = TRUE, !.returned = "True"]
    /\ calls' = Append(calls, Step("push", 0))
    /\ pc' = "done"
    /\ UNCHANGED <<page, worktree, index, head, commits, start0, cause>>
    /\ OnlyRun

\* commit_and_push: origin.push() (or repo.remote) raises
GitPushFails ==
    /\ pc = "push"
    /\ calls' = Append(calls, Step("push", 0))
    /\ Abort("push")
    /\ UNCHANGED <<page, worktree, index, head, commits, pushed, start0, call>>
    /\ OnlyRun

----------------------------------------------------------------------------
(* Specifications: one per routine.                                        *)

InitReplace == InitRepl /\ IdleFmt /\ IdleCnt /\ IdleAgg /\ IdleRun
NextReplace == \E b \in Bodies : update_readme_with_image(b)
SpecReplace == InitReplace /\ [][NextReplace]_vars

InitFormat == IdleRepl /\ InitFmt /\ IdleCnt /\ IdleAgg /\ IdleRun
NextFormat == Format
SpecFormat == InitFormat /\ [][NextFormat]_vars

InitCount == IdleRepl /\ IdleFmt /\ InitCnt /\ IdleAgg /\ IdleRun
NextCount == Visit \/ CountReturn
SpecCount == InitCount /\ [][NextCount]_vars

InitAggregate == IdleRepl /\ IdleFmt /\ IdleCnt /\ InitAgg /\ IdleRun
NextAggregate == AggSkip \/ (\E a \in Answers : AggFetch(a)) \/ AggReturn
SpecAggregate == InitAggregate /\ [][NextAggregate]_vars

InitMain == IdleRepl /\ IdleFmt /\ IdleCnt /\ IdleAgg /\ InitRun
NextMain ==
    \/ FetchUser \/ FetchUserFails
    \/ FetchReposPage \/ FetchReposLast \/ FetchReposFails
    \/ Render \/ UpdateReadme
    \/ GitAdd \/ GitAddFails \/ CheckDirty
    \/ GitCommit \/ GitCommitFails \/ GitPush \/ GitPushFails
SpecMain == InitMain /\ [][NextMain]_vars

Init == InitReplace \/ InitFormat \/ InitCount \/ InitAggregate \/ InitMain
Next == NextReplace \/ NextFormat \/ NextCount \/ NextAggregate \/ NextMain
Spec == Init /\ [][Next]_vars

----------------------------------------------------------------------------
(* Properties.                                                             *)

IsPrefix(a, b) == Len(a) <= Len(b) /\ SubSeq(b, 1, Len(a)) = a

BothMarkers(d) == Contains(d, start_marker) /\ Contains(d, end_marker)

\* The latest run wrote this block
Block == <<start_marker>> \o body \o <<end_marker>>

\* C1: replacing the section twice with the same body gives the document that
\* replacing it once gives, whatever markers the document holds: a run that
\* reads the result of a run with the same body writes back what it read.
C1_Idempotent == (runs >= 2 /\ body = prevBody) => readme = content

\* The first end marker at or after the first start marker of d
EndAfterStart(d) ==
    CHOOSE j \in 1..Len(d) :
        /\ j > IndexOf(d, start_marker)
        /\ d[j] = end_marker
        /\ \A k \in (IndexOf(d, start_marker) + 1)..(j - 1) : d[k] # end_marker

HasEndAfterStart(d) ==
    /\ BothMarkers(d)
    /\ \E j \in 1..Len(d) : j > IndexOf(d, start_marker) /\ d[j] = end_marker

\* C2: with both markers in the document, the result is the document with the
\* span from the first start marker to the first end marker at or after it
\* replaced by start marker + body + end marker; the text before the span and
\* the text after it are kept.
C2_SpanReplaced ==
    (runs >= 1 /\ HasEndAfterStart(content)) =>
        readme = SubSeq(content, 1, IndexOf(content, start_marker) - 1)
                 \o Block
                 \o SubSeq(content, EndAfterStart(content) + 1, Len(content))

\* C3: with a marker missing from the document, the result is the document,
\* unchanged, followed by a newline if it does not end in one, then a newline,
\* the one block start marker + body + end marker, and a newline; so
\* "# X\n" with body "hello" gives "# X\n\n<!--S-->hello<!--E-->\n".
C3_AppendWhenMarkerAbsent ==
    /\ (runs >= 1 /\ ~BothMarkers(content)) =>
          /\ IsPrefix(content, readme)
          /\ SubSeq(readme, Len(content) + 1, Len(readme)) =
                (IF EndsWith(content, NL) THEN <<>> ELSE <<NL>>)
                \o <<NL>> \o Block \o <<NL>>
    /\ Splice(<<"#", " ", "X", NL>>, new_section(<<"h", "e", "l", "l", "o">>)) =
          <<"#", " ", "X", NL, NL,
            start_marker, "h", "e", "l", "l", "o", end_marker, NL>>

\* A run on a document that holds a lone start marker and no final newline
C3_Witness ==
    /\ runs = 1
    /\ Contains(content, start_marker) /\ ~Contains(content, end_marker)
    /\ ~EndsWith(content, NL)
    /\ body # <<>>

\* A document with no marker, or with one start marker followed by one end marker
WellFormed(d) ==
    \/ ~Contains(d, start_marker) /\ ~Contains(d, end_marker)
    \/ /\ Count(d, start_marker) = 1
       /\ Count(d, end_marker) = 1
       /\ IndexOf(d, start_marker) < IndexOf(d, end_marker)

\* C10: from a README with no marker or one well-formed region, after every run
\* the README holds exactly one start marker and one end marker, the start
\* marker first, and from the second run on the text before the start marker
\* is the text that was before it after the run before.
C10_SingleRegionKept ==
    (WellFormed(orig) /\ runs >= 1) =>
        /\ Count(readme, start_marker) = 1
        /\ Count(readme, end_marker) = 1
        /\ IndexOf(readme, start_marker) < IndexOf(readme, end_marker)
        /\ runs >= 2 => Split0(readme, start_marker) = Split0(content, start_marker)

\* Two runs with different bodies on a README that held a region after some text
C10_Witness ==
    /\ runs >= 2
    /\ body # prevBody
    /\ BothMarkers(orig) /\ WellFormed(orig)
    /\ Split0(orig, start_marker) # <<>>

\* n/1000 rounded to one decimal (halves up), comma for the decimal point,
\* a ",0" dropped
RoundedK(n) ==
    LET t == (n + 50) \div 100
    IN  Str(t \div 10)
        \o (IF t % 10 = 0 THEN <<>> ELSE <<",", Digit(t % 10)>>)
        \o <<"k">>

\* C4: format_lines_k(n) is the decimal literal of n below 1000 and otherwise
\* n/1000 rounded to one decimal, with a comma, a 'k' and no trailing ",0";
\* format(0)="0", format(999)="999", format(1000)="1k", format(1250)="1,3k",
\* format(16300)="16,3k".
C4_FormatRoundsToOneDecimal ==
    fmt_pc = "returned" =>
        /\ s = (IF lines < 1000 THEN Str(lines) ELSE RoundedK(lines))
        /\ lines = 0 => s = <<"0">>
        /\ lines = 999 => s = <<"9", "9", "9">>
        /\ lines = 1000 => s = <<"1", "k">>
        /\ lines = 1250 => s = <<"1", ",", "3", "k">>
        /\ lines = 16300 => s = <<"1", "6", ",", "3", "k">>

\* The lines of a file: its newline bytes, plus one when it is not empty and
\* its last byte is not a newline
FileLines(b) ==
    Cardinality({i \in 1..Len(b) : b[i] = "0A"})
    + (IF Len(b) > 0 /\ b[Len(b)] # "0A" THEN 1 ELSE 0)

\* A regular file whose lower-cased extension is recognized and that can be read
Recognized(p) == p.is_file /\ Lower(p.suffix) \in CODE_EXTS /\ p.readable

RECURSIVE SumLines(_)
SumLines(paths) ==
    IF paths = <<>> THEN 0
    ELSE (IF Recognized(Head(paths)) THEN FileLines(Head(paths).bytes) ELSE 0)
         + SumLines(Tail(paths))

\* C5: count_lines_in_dir returns as total the sum, over the regular files with
\* a recognized lower-cased extension (those whose read succeeds, see C9), of
\* the file's newline count plus one for a last line without newline, and as
\* files_counted the number of those files; the same holds of the paths
\* visited so far at every step of the scan.
C5_TotalsOverRecognizedFiles ==
    /\ total = SumLines(SubSeq(tree, 1, pos))
    /\ files_counted = Cardinality({i \in 1..pos : Recognized(tree[i])})
    /\ cnt_pc = "returned" => pos = Len(tree)

\* A returned scan of an upper-case-suffix file without final newline, an empty
\* recognized file or a file of another extension beside it
C5_Witness ==
    /\ cnt_pc = "returned"
    /\ Len(tree) = 2
    /\ \E i \in 1..2 :
          /\ tree[i].suffix = ".PY" /\ tree[i].readable
          /\ tree[i].bytes = <<"0A", "FF">>
    /\ \E i \in 1..2 : tree[i].suffix = ".txt"
    /\ total = 2 /\ files_counted = 1

\* The read of p raises
Unreadable(p) == p.is_file /\ Lower(p.suffix) \in CODE_EXTS /\ ~p.readable

\* C9: a recognized file whose read raises is skipped: the step that visits it
\* changes neither total nor files_counted and the scan goes on with the next
\* path; and the function returns only after the last path.
C9_UnreadableFileSkipped ==
    [][(cnt_pc = "loop" /\ pos < Len(tree) /\ Unreadable(tree[pos + 1])) =>
          /\ total' = total
          /\ files_counted' = files_counted
          /\ pos' = pos + 1
          /\ cnt_pc' = "loop"]_vars

\* A returned scan that met an unreadable file first and counted a file after it
C9_Witness ==
    /\ cnt_pc = "returned"
    /\ Len(tree) = 2
    /\ Unreadable(tree[1])
    /\ Recognized(tree[2]) /\ tree[2].bytes # <<>>
    /\ files_counted = 1 /\ total >= 1

\* Repository i is no fork, has a breakdown endpoint, and its fetch succeeded
Contributes(i) ==
    /\ repos[i].fork # "true"
    /\ repos[i].languages_url = "url"
    /\ responses[i].ok

RECURSIVE SumLang(_, _)
\* The bytes of language l reported by the contributing repositories among the
\* first n
SumLang(l, n) ==
    IF n = 0 THEN 0
    ELSE (IF Contributes(n) THEN Get(responses[n].langs, l) ELSE 0)
         + SumLang(l, n - 1)

\* C6: the totals of aggregate_language_bytes are, per language, the sum of the
\* bytes reported by exactly the non-fork repositories with an endpoint whose
\* fetch succeeded; forks add nothing, and a failed fetch neither ends the loop
\* early nor changes what the others add.
C6_TotalsOverFetchedNonForks ==
    /\ \A l \in Langs : Get(totals, l) = SumLang(l, ri)
    /\ DOMAIN totals =
          UNION {DOMAIN responses[i].langs : i \in {j \in 1..ri : Contributes(j)}}
    /\ \A i \in 1..ri : IsFork(repos[i]) => ~responses[i].ok
    /\ agg_pc = "returned" => ri = Len(repos)

\* A returned aggregation over a repository whose fetch failed and a later one
\* whose fetch answered
C6_Witness ==
    /\ agg_pc = "returned"
    /\ Len(repos) = 2
    /\ ~IsFork(repos[1]) /\ ~NoUrl(repos[1]) /\ ~responses[1].ok
    /\ responses[2].ok /\ DOMAIN responses[2].langs = Langs
    /\ DOMAIN totals = Langs

\* C7: commit_and_push stages everything before it looks at the tree; it
\* commits, with the fixed message, only a staged tree that differs from HEAD,
\* pushes only after that commit, and returns True then; on a tree equal to
\* HEAD it commits nothing, pushes nothing and returns False.
C7_CommitAndPushOrder ==
    /\ call.checked => call.staged
    /\ call.staged => index = worktree
    /\ call.committed =>
          /\ call.checked
          /\ index # start0.head
          /\ commits = <<COMMIT_MESSAGE>>
          /\ head = index
    /\ ~call.committed => commits = <<>> /\ head = start0.head
    /\ call.pushed <=> pushed = Len(commits) /\ call.committed
    /\ ~call.pushed => pushed = 0
    /\ pc = "done" =>
          /\ call.staged
          /\ call.returned \in {"True", "False"}
          /\ call.returned = "True" <=> worktree # start0.head
          /\ call.returned = "True" => call.committed /\ call.pushed
          /\ call.returned = "False" => ~call.committed /\ ~call.pushed
    /\ call.returned # "none" => pc = "done"

\* A call that committed and pushed and returned True
C7_Witness ==
    /\ pc = "done"
    /\ call.returned = "True"
    /\ commits = <<COMMIT_MESSAGE>>
    /\ pushed = 1

\* No request or step was made twice
NoRetries == \A i, j \in 1..Len(calls) : i # j => calls[i] # calls[j]

\* C8 as stated: after an abort on a failed profile fetch, a failed repository
\* page or a version-control error of commit or push, nothing was retried, the
\* README and the images are as before the run, and no commit was created.
C8_AbortLeavesNothing ==
    (pc = "aborted" /\ cause \in {"profile", "repos", "commit", "push"}) =>
        /\ NoRetries
        /\ worktree = start0.worktree
        /\ commits = <<>>

\* C8, amended: no step is ever retried; after an abort on a failed profile
\* fetch or repository page the README and the images are as before the run
\* and no commit was created; after an abort on a commit or push error the
\* README and the images the run wrote are still in the working directory,
\* staged, and after a push error the commit exists and is not pushed.
C8_AbortAmended ==
    /\ NoRetries
    /\ (pc = "aborted" /\ cause \in {"profile", "repos"}) =>
          /\ worktree = start0.worktree
          /\ head = start0.head
          /\ commits = <<>> /\ pushed = 0
    /\ (pc = "aborted" /\ cause \in {"commit", "push"}) =>
          /\ worktree.readme_exists /\ BothMarkers(worktree.readme)
          /\ worktree.images # "absent"
          /\ index = worktree
          /\ worktree # start0.head
          /\ pushed = 0
          /\ cause = "commit" => commits = <<>>
          /\ cause = "push" => commits = <<COMMIT_MESSAGE>>

\* An abort on the second repository page, and nothing written
C8_Witness ==
    /\ pc = "aborted"
    /\ cause = "repos"
    /\ page = 2
    /\ worktree = start0.worktree
    /\ ~worktree.readme_exists

=============================================================================
